---------------------------- MODULE Spec2Model ----------------------------
(***************************************************************************)
(* Settlers of Mars: the story service client (generateStory,              *)
(* generateImage, fetchNextScene), the GameUI choice panel, the            *)
(* HabitatViewer scene graph and the game orchestrator that drives them.   *)
(*                                                                         *)
(* A backend response text is a sequence of tokens: [ch |-> c] is one      *)
(* character, [json |-> v] stands for the characters of one complete JSON  *)
(* document whose value is v.  The string operations of generateStory      *)
(* (trim, the two regular-expression replacements) work on the characters; *)
(* JSON.parse, a library function, is reduced to: optional whitespace, one *)
(* document, optional whitespace.                                          *)
(***************************************************************************)
EXTENDS Integers, Sequences, FiniteSets, TLC

(***************************************************************************)
(* Bounds of the model.                                                    *)
(***************************************************************************)
\* fetchNextScene calls per session
MaxCalls == 3

(***************************************************************************)
(* types: GameState, HabitatPart, ScenePayload, Scene, StoryLogEntry       *)
(***************************************************************************)
GameState == {"START", "LOADING", "PLAYING", "GAME_OVER", "ERROR"}

\* the four literals of HabitatPart.partType
PartTypes == {"CYLINDER", "DOME", "TUBE", "AIRLOCK"}

Vec(a, b, c) == [x |-> a, y |-> b, z |-> c]

\* JSON null (habitatUpdate) and the absence of a scene (scene: Scene | null)
Null == [null |-> TRUE]

\* the six fields the response schema requires
RequiredFields ==
    {"story", "imagePrompt", "choices", "newItem", "gameOver", "habitatUpdate"}

(***************************************************************************)
(* The backend's answers the model draws from.                             *)
(***************************************************************************)
Lander ==
    [partType |-> "CYLINDER", position |-> Vec(0, 0, 0),
     rotation |-> Vec(0, 0, 0), scale |-> Vec(1, 1, 1)]

Corridor ==
    [partType |-> "TUBE", position |-> Vec(1, 0, 0),
     rotation |-> Vec(0, 0, 1), scale |-> Vec(1, 2, 1)]

Dome ==
    [partType |-> "DOME", position |-> Vec(0, 1, 0),
     rotation |-> Vec(0, 0, 0), scale |-> Vec(2, 2, 2)]

Airlock ==
    [partType |-> "AIRLOCK", position |-> Vec(2, 0, 0),
     rotation |-> Vec(0, 1, 0), scale |-> Vec(1, 1, 1)]

\* a part type the backend may name (the schema types partType as a string)
\* that is none of the four
Pyramid ==
    [partType |-> "PYRAMID", position |-> Vec(0, 1, 0),
     rotation |-> Vec(0, 0, 0), scale |-> Vec(1, 1, 1)]

Story == "The dust settles."
Prompt == "a crashed shuttle"
TwoChoices == <<"Explore the wreckage", "Seal the hull">>

Doc(choices, newItem, gameOver, habitatUpdate) ==
    [story |-> Story, imagePrompt |-> Prompt, choices |-> choices,
     newItem |-> newItem, gameOver |-> gameOver,
     habitatUpdate |-> habitatUpdate]

\* documents carrying all six fields
FullDocs ==
    { Doc(TwoChoices, "", FALSE, Null),
      Doc(TwoChoices, "Power Cell", FALSE, Null),
      Doc(TwoChoices, "", FALSE, Lander),
      Doc(TwoChoices, "Power Cell", FALSE, Corridor),
      Doc(TwoChoices, "", FALSE, Pyramid),
      Doc(<<>>, "", FALSE, Null),
      Doc(<<>>, "", TRUE, Null),
      Doc(TwoChoices, "", TRUE, Null),
      Doc(TwoChoices, "Power Cell", TRUE, Lander),
      Doc(<<>>, "", TRUE, Dome),
      Doc(<<>>, "", TRUE, Airlock) }

\* well-formed JSON objects that lack a required field
PartialDocs ==
    { [story |-> Story, choices |-> TwoChoices, newItem |-> "",
       gameOver |-> FALSE, habitatUpdate |-> Null],
      [story |-> Story, imagePrompt |-> Prompt, choices |-> TwoChoices,
       newItem |-> "Power Cell", gameOver |-> FALSE],
      [story |-> Story, imagePrompt |-> Prompt, choices |-> <<>>,
       gameOver |-> TRUE, habitatUpdate |-> Null] }

Docs == FullDocs \cup PartialDocs

ch(c) == [ch |-> c]
json(v) == [json |-> v]

Chars(s) == [i \in 1..Len(s) |-> ch(s[i])]

\* "BT" is the backtick character
Backtick == ch("BT")
Backticks == <<Backtick, Backtick, Backtick>>
JsonTag == Chars(<<"j", "s", "o", "n">>)
NL == Chars(<<"\n">>)

\* the code fences a backend may put around its document: <<opening, closing>>
TaggedFence == <<Backticks \o JsonTag \o NL, NL \o Backticks>>
TaggedFenceTight == <<Backticks \o JsonTag, Backticks>>
TaggedFencePadded == <<NL \o Backticks \o JsonTag \o Chars(<<" ">>) \o NL,
                       NL \o Backticks \o NL>>
BareFence == <<Backticks \o NL, NL \o Backticks>>
BareFenceTight == <<Backticks, Backticks>>

Fences == {TaggedFence, TaggedFenceTight, TaggedFencePadded, BareFence,
           BareFenceTight}

WrapIn(fence, t) == fence[1] \o t \o fence[2]

\* the documents the model also sends fenced
FencedDocs == { Doc(TwoChoices, "", FALSE, Lander) }

\* text that is no JSON document
MalformedTexts == { <<>>, Chars(<<"{">>) }

ResponseTexts ==
    { <<json(d)>> : d \in Docs }
      \cup { WrapIn(f, <<json(d)>>) : f \in Fences, d \in FencedDocs }
      \cup { Chars(<<" ">>) \o <<json(d)>> \o NL : d \in FencedDocs }
      \cup MalformedTexts

\* generateImages answers: the list of generated images (their bytes)
ImageLists == { <<>>, <<"/9j/4AAQ">> }

(***************************************************************************)
(* generateStory: the text handling of lines 233-241                       *)
(***************************************************************************)
IsWhitespace(tok) == "ch" \in DOMAIN tok /\ tok.ch \in {" ", "\n"}

RECURSIVE TrimStart(_)
TrimStart(text) ==
    IF text # <<>> /\ IsWhitespace(Head(text)) THEN TrimStart(Tail(text))
    ELSE text

RECURSIVE TrimEnd(_)
TrimEnd(text) ==
    IF text # <<>> /\ IsWhitespace(text[Len(text)])
    THEN TrimEnd(SubSeq(text, 1, Len(text) - 1))
    ELSE text

\* String.prototype.trim
trim(text) == TrimEnd(TrimStart(text))

StartsWith(text, prefix) ==
    Len(text) >= Len(prefix) /\ SubSeq(text, 1, Len(prefix)) = prefix

EndsWith(text, suffix) ==
    Len(text) >= Len(suffix)
    /\ SubSeq(text, Len(text) - Len(suffix) + 1, Len(text)) = suffix

\* text.replace(/^BT BT BT json\n?/, ''): an opening fence with the json tag
\* at the start of the text, and the newline after it if there is one
ReplaceOpeningFence(text) ==
    IF StartsWith(text, Backticks \o JsonTag)
    THEN LET rest == SubSeq(text, Len(Backticks \o JsonTag) + 1, Len(text))
         IN  IF StartsWith(rest, NL) THEN Tail(rest) ELSE rest
    ELSE text

\* .replace(/\n?BT BT BT$/, ''): a closing fence at the end of the text, and
\* the newline before it if there is one
ReplaceClosingFence(text) ==
    IF EndsWith(text, Backticks)
    THEN LET rest == SubSeq(text, 1, Len(text) - Len(Backticks))
         IN  IF EndsWith(rest, NL) THEN SubSeq(rest, 1, Len(rest) - 1)
             ELSE rest
    ELSE text

cleanText(text) == ReplaceClosingFence(ReplaceOpeningFence(text))

SyntaxError == [error |-> "SyntaxError"]

\* JSON.parse: whitespace, one document, whitespace; anything else throws
JSONParse(text) ==
    LET body == trim(text)
    IN  IF Len(body) = 1 /\ "json" \in DOMAIN body[1] THEN body[1].json
        ELSE SyntaxError

\* lines 233-241: the ScenePayload returned, or SyntaxError when the catch
\* block throws "Received an invalid story format from the AI."
ParseStory(responseText) == JSONParse(cleanText(trim(responseText)))

(***************************************************************************)
(* generateStory: the request content of lines 215-220.  history is the    *)
(* sequence of the narrative texts so far; an empty history is falsy.      *)
(***************************************************************************)
\* StoryContent gone wrong: the choice is written into the opening request
StoryContentWithChoice(history, choice) ==
    IF history = <<>>
    THEN [template |-> "Start the game.", history |-> <<>>, choice |-> choice]
    ELSE [template |-> "Here is the story so far", history |-> history,
          choice |-> choice]

StoryContent(history, choice) ==
    IF history = <<>>
    THEN [template |-> "Start the game.", history |-> <<>>, choice |-> ""]
    ELSE [template |-> "Here is the story so far", history |-> history,
          choice |-> choice]

(***************************************************************************)
(* generateImage, lines 244-260                                            *)
(***************************************************************************)
\* a template literal prints a missing property as "undefined"
ImagePromptOf(payload) ==
    IF "imagePrompt" \in DOMAIN payload THEN payload.imagePrompt
    ELSE "undefined"

\* ImageRequestPrompt gone wrong: the scene's prompt is left out
ImageRequestPromptFixed(prompt) == "on the planet Mars, sci-fi, realistic"

\* line 247: the prompt of the image request
ImageRequestPrompt(prompt) == prompt \o ", on the planet Mars, sci-fi, realistic"

\* lines 255-259: the data URI of the first image, or the throw of
\* "Failed to generate an image."
NoImage == [error |-> "Failed to generate an image."]

\* ImageUrlOf gone wrong: an empty result yields an empty data URI
ImageUrlOfWithPlaceholder(generatedImages) ==
    IF Len(generatedImages) > 0
    THEN [url |-> "data:image/jpeg;base64," \o generatedImages[1]]
    ELSE [url |-> "data:image/jpeg;base64,"]

ImageUrlOf(generatedImages) ==
    IF Len(generatedImages) > 0
    THEN [url |-> "data:image/jpeg;base64," \o generatedImages[1]]
    ELSE NoImage

\* lines 266-269: { ...scenePayload, imageUrl }
SceneOf(scenePayload, imageUrl) ==
    [f \in DOMAIN scenePayload \cup {"imageUrl"} |->
        IF f = "imageUrl" THEN imageUrl ELSE scenePayload[f]]

(***************************************************************************)
(* State.                                                                  *)
(*   gameState, scene, storyLog, inventory, habitatParts: the orchestrator *)
(*   calls: the fetchNextScene calls of the session, in call order; each   *)
(*     with the place it is at (pc), the requests it has issued and what   *)
(*     it has received                                                     *)
(*   viewerMounted, sceneChildren, effectParts, effectRuns: the            *)
(*     HabitatViewer: whether it is mounted, the children of its           *)
(*     THREE.Scene in order, the parts prop its parts effect last ran      *)
(*     with, and how many times that effect has run; a mesh records the    *)
(*     run that built it (builtIn)                                         *)
(***************************************************************************)
VARIABLES gameState, scene, storyLog, inventory, habitatParts, calls,
          viewerMounted, sceneChildren, effectParts, effectRuns,
          clientSize, camera, rendererSize, canvasAttached, resizeListener,
          framePending

gameVars == <<gameState, scene, storyLog, inventory, habitatParts>>
\* the scene graph and the parts effect
sceneVars == <<sceneChildren, effectParts, effectRuns>>
\* what the mount effect acquires: the camera, the renderer and its canvas,
\* the resize listener on window, the requested animation frame
mountVars == <<camera, rendererSize, canvasAttached, resizeListener,
               framePending>>
viewerVars == <<viewerMounted, sceneVars, clientSize, mountVars>>
vars == <<gameVars, calls, viewerVars>>

\* a call that has not yet settled
Pending(c) == calls[c].pc \in {"awaitStory", "awaitImage"}

OutstandingCalls == { c \in 1..Len(calls) : Pending(c) }

(***************************************************************************)
(* fetchNextScene, lines 262-270, up to its first await: generateStory     *)
(* builds the content and sends the narrative request.                     *)
(***************************************************************************)
NewCall(history, choice) ==
    [pc |-> "awaitStory",
     content |-> StoryContent(history, choice),
     \* the backend requests sent and not yet answered
     outstanding |-> {"narrative"},
     \* the requests sent so far, by kind
     narrativeRequests |-> 1,
     imageRequests |-> 0,
     \* what the narrative request was answered with: "" (nothing yet),
     \* "text" (the response text) or "error"
     narrativeAnswer |-> "",
     text |-> <<>>,
     \* scenePayload of line 263 and the prompt of the image request
     payload |-> Null,
     imagePrompt |-> "",
     \* what the image request was answered with: "", "images" or "error"
     imageAnswer |-> "",
     images |-> <<>>,
     \* the Scene returned
     result |-> Null,
     \* the orchestrator's collections when the call was made
     before |-> [storyLog |-> storyLog, inventory |-> inventory,
                 habitatParts |-> habitatParts]]

\* What a settled call received is kept until the next call starts.
Forget(call) ==
    [call EXCEPT !.content = StoryContent(<<>>, ""),
                 !.narrativeAnswer = "", !.text = <<>>,
                 !.payload = Null, !.imagePrompt = "",
                 !.imageAnswer = "", !.images = <<>>,
                 !.result = Null, !.before = Null]

StartCall(history, choice) ==
    calls' = Append([c \in 1..Len(calls) |->
                        IF Pending(c) THEN calls[c] ELSE Forget(calls[c])],
                    NewCall(history, choice))

(***************************************************************************)
(* GameUI, lines 68-102: what the choice panel shows.                      *)
(***************************************************************************)
\* the orchestrator renders GameUI with isLoading = (gameState is LOADING)
isLoading == gameState = "LOADING"

\* the orchestrator shows GameUI while a game is under way or over
GameUIRendered == gameState \in {"LOADING", "PLAYING", "GAME_OVER"}

\* VisibleChoices gone wrong: the gameOver test of line 84 is missing
VisibleChoicesIgnoringGameOver ==
    IF ~GameUIRendered THEN <<>>
    ELSE IF isLoading THEN <<>>
    ELSE IF scene = Null THEN <<>>
    ELSE IF Len(scene.choices) > 0 THEN scene.choices
    ELSE <<>>

\* VisibleChoices gone wrong: the isLoading branch of line 76 is missing
VisibleChoicesWhileLoading ==
    IF ~GameUIRendered THEN <<>>
    ELSE IF scene = Null THEN <<>>
    ELSE IF Len(scene.choices) > 0 /\ ~scene.gameOver THEN scene.choices
    ELSE <<>>

\* lines 76-100: the choice buttons rendered, in order
VisibleChoices ==
    IF ~GameUIRendered THEN <<>>
    ELSE IF isLoading THEN <<>>
    ELSE IF scene = Null THEN <<>>
    ELSE IF Len(scene.choices) > 0 /\ ~scene.gameOver THEN scene.choices
    ELSE <<>>

\* line 92: disabled={isLoading}
ButtonDisabled == isLoading

\* the buttons a click reaches
ClickableChoices ==
    IF ButtonDisabled THEN {} ELSE 1..Len(VisibleChoices)

\* line 54: entry.story.substring(0, 100) followed by three dots
Excerpt(story) ==
    (IF Len(story) <= 100 THEN story ELSE SubSeq(story, 1, 100)) \o "..."

LogItem(entry) == [key |-> entry.id, text |-> Excerpt(entry.story)]

RECURSIVE Reverse(_)
Reverse(seq) ==
    IF seq = <<>> THEN <<>> ELSE Append(Reverse(Tail(seq)), Head(seq))

\* MissionLog gone wrong: storyLog.reverse() reverses the array of the prop
MissionLogInPlace(log) ==
    [shown |-> [i \in 1..Len(log) |-> LogItem(Reverse(log)[i])],
     stored |-> Reverse(log)]

\* lines 52-56, [...storyLog].reverse().map(...): the list items shown, and
\* the array of the storyLog prop after the render; the spread makes a
\* copy, and it is the copy that reverse() turns over
MissionLog(log) ==
    LET copy == log
    IN  [shown |-> [i \in 1..Len(copy) |-> LogItem(Reverse(copy)[i])],
         stored |-> log]

(***************************************************************************)
(* The orchestrator.                                                       *)
(***************************************************************************)
\* the history handed to fetchNextScene: the narrative texts of the log
History == [i \in 1..Len(storyLog) |-> storyLog[i].story]

\* FreshPartId gone wrong: the identity of the last part is given again
FreshPartIdReused ==
    IF habitatParts = <<>> THEN 1 ELSE habitatParts[Len(habitatParts)].id

\* the identity given to a new part
FreshPartId == Len(habitatParts) + 1

WithId(update, id) ==
    [f \in DOMAIN update \cup {"id"} |-> IF f = "id" THEN id ELSE update[f]]

\* HandleScene gone wrong: an item already held is not added again
HandleSceneWithoutDuplicates(s) ==
    /\ scene' = s
    /\ storyLog' = Append(storyLog, [id |-> Len(storyLog) + 1, story |-> s.story])
    /\ inventory' = IF "newItem" \in DOMAIN s /\ s.newItem # ""
                       /\ \A i \in 1..Len(inventory) : inventory[i] # s.newItem
                    THEN Append(inventory, s.newItem) ELSE inventory
    /\ habitatParts' = IF "habitatUpdate" \in DOMAIN s /\ s.habitatUpdate # Null
                       THEN Append(habitatParts,
                                   WithId(s.habitatUpdate, FreshPartId))
                       ELSE habitatParts
    /\ gameState' = IF s.gameOver THEN "GAME_OVER" ELSE "PLAYING"

\* on a valid Scene: log entry, inventory, habitat, next state; GameUI
\* renders the new log
HandleScene(s) ==
    /\ scene' = s
    /\ storyLog' =
          MissionLog(Append(storyLog, [id |-> Len(storyLog) + 1,
                                       story |-> s.story])).stored
    /\ inventory' = IF "newItem" \in DOMAIN s /\ s.newItem # ""
                    THEN Append(inventory, s.newItem) ELSE inventory
    /\ habitatParts' = IF "habitatUpdate" \in DOMAIN s /\ s.habitatUpdate # Null
                       THEN Append(habitatParts,
                                   WithId(s.habitatUpdate, FreshPartId))
                       ELSE habitatParts
    /\ gameState' = IF s.gameOver THEN "GAME_OVER" ELSE "PLAYING"

\* HandleFailure gone wrong: the failure is written to the story log
HandleFailureLogging ==
    /\ gameState' = "ERROR"
    /\ storyLog' = Append(storyLog, [id |-> Len(storyLog) + 1,
                                     story |-> "Transmission lost."])
    /\ UNCHANGED <<scene, inventory, habitatParts>>

\* HandleFailure gone wrong: play resumes after a failure
HandleFailureResuming ==
    /\ gameState' = IF scene = Null THEN "START" ELSE "PLAYING"
    /\ UNCHANGED <<scene, storyLog, inventory, habitatParts>>

\* on a rejected fetchNextScene
HandleFailure ==
    /\ gameState' = "ERROR"
    /\ UNCHANGED <<scene, storyLog, inventory, habitatParts>>

\* the choice text the start action may hand to fetchNextScene with the
\* empty history
StartChoices == {"", "Start"}

\* the start action
StartGame ==
    /\ gameState = "START"
    /\ Len(calls) < MaxCalls
    /\ gameState' = "LOADING"
    /\ \E choice \in StartChoices : StartCall(<<>>, choice)
    /\ UNCHANGED <<scene, storyLog, inventory, habitatParts, viewerVars>>

\* GameUI line 91, onClick={() => onChoice(choice)}, and the orchestrator's
\* onChoice
ClickChoice(i) ==
    /\ i \in ClickableChoices
    /\ Len(calls) < MaxCalls
    /\ gameState' = "LOADING"
    /\ StartCall(History, VisibleChoices[i])
    /\ UNCHANGED <<scene, storyLog, inventory, habitatParts, viewerVars>>

(***************************************************************************)
(* The continuations of fetchNextScene.  A promise's continuation and the  *)
(* awaits chained on it (generateStory -> fetchNextScene -> the            *)
(* orchestrator) run as one microtask chain, one step here.                *)
(***************************************************************************)
Settle(c, changes) == calls' = [calls EXCEPT ![c] = changes @@ @]

\* StoryResolves gone wrong: fetchNextScene returns the scene as soon as the
\* narrative is there, with no image
StoryResolvesWithoutImage(c, responseText) ==
    /\ calls[c].pc = "awaitStory"
    /\ UNCHANGED viewerVars
    /\ LET parsed == ParseStory(responseText)
       IN  IF parsed = SyntaxError
           THEN /\ Settle(c, [pc |-> "rejected", outstanding |-> {},
                              narrativeAnswer |-> "text",
                              text |-> responseText])
                /\ HandleFailure
           ELSE LET s == SceneOf(parsed, "")
                IN  /\ Settle(c, [pc |-> "resolved", outstanding |-> {},
                                  narrativeAnswer |-> "text",
                                  text |-> responseText,
                                  payload |-> parsed,
                                  result |-> s])
                    /\ HandleScene(s)

\* the narrative request is answered with responseText: lines 233-241, then
\* line 264 up to the image request
StoryResolves(c, responseText) ==
    /\ calls[c].pc = "awaitStory"
    /\ UNCHANGED viewerVars
    /\ LET parsed == ParseStory(responseText)
       IN  IF parsed = SyntaxError
           THEN /\ Settle(c, [pc |-> "rejected", outstanding |-> {},
                              narrativeAnswer |-> "text",
                              text |-> responseText])
                /\ HandleFailure
           ELSE /\ Settle(c, [pc |-> "awaitImage",
                              outstanding |-> {"image"},
                              narrativeAnswer |-> "text",
                              text |-> responseText,
                              payload |-> parsed,
                              imagePrompt |->
                                  ImageRequestPrompt(ImagePromptOf(parsed)),
                              imageRequests |-> calls[c].imageRequests + 1])
                /\ UNCHANGED gameVars

\* the narrative request fails (the backend is unreachable): line 222 throws
StoryRejects(c) ==
    /\ calls[c].pc = "awaitStory"
    /\ UNCHANGED viewerVars
    /\ Settle(c, [pc |-> "rejected", outstanding |-> {},
                  narrativeAnswer |-> "error"])
    /\ HandleFailure

\* the image request is answered: lines 255-259, then lines 266-269
ImageResolves(c, generatedImages) ==
    /\ calls[c].pc = "awaitImage"
    /\ UNCHANGED viewerVars
    /\ LET image == ImageUrlOf(generatedImages)
       IN  IF image = NoImage
           THEN /\ Settle(c, [pc |-> "rejected", outstanding |-> {},
                              imageAnswer |-> "images",
                              images |-> generatedImages])
                /\ HandleFailure
           ELSE LET s == SceneOf(calls[c].payload, image.url)
                IN  /\ Settle(c, [pc |-> "resolved", outstanding |-> {},
                                  imageAnswer |-> "images",
                                  images |-> generatedImages,
                                  result |-> s])
                    /\ HandleScene(s)

\* the image request fails: line 245 throws
ImageRejects(c) ==
    /\ calls[c].pc = "awaitImage"
    /\ UNCHANGED viewerVars
    /\ Settle(c, [pc |-> "rejected", outstanding |-> {},
                  imageAnswer |-> "error"])
    /\ HandleFailure

(***************************************************************************)
(* HabitatViewer.  Lengths are in tenths of a unit (5 is 0.5).             *)
(***************************************************************************)
\* lines 86-90
AmbientLight == [type |-> "AmbientLight", intensity |-> 5]
DirectionalLight ==
    [type |-> "DirectionalLight", intensity |-> 10, position |-> Vec(50, 100, 75)]

\* lines 69-90: the scene of a fresh mount holds the two lights
MountScene == <<AmbientLight, DirectionalLight>>

\* ClearParts gone wrong: an if in place of the while
ClearPartsOnce(children) ==
    IF Len(children) > 2
    THEN SubSeq(children, 1, 2) \o SubSeq(children, 4, Len(children))
    ELSE children

\* lines 124-126: while (scene.children.length > 2) scene.remove(children[2])
RECURSIVE ClearParts(_)
ClearParts(children) ==
    IF Len(children) > 2
    THEN ClearParts(SubSeq(children, 1, 2) \o SubSeq(children, 4, Len(children)))
    ELSE children

NoGeometry == [type |-> "none"]

\* GeometryFor gone wrong: the tube is as thick as the cylinder
GeometryForThickTube(partType) ==
    CASE partType \in {"CYLINDER", "TUBE"} ->
           [type |-> "CylinderGeometry", radiusTop |-> 5, radiusBottom |-> 5,
            height |-> 10, radialSegments |-> 32]
      [] partType = "DOME" ->
           [type |-> "SphereGeometry", radius |-> 5, widthSegments |-> 32,
            heightSegments |-> 16, phiLength |-> "2*PI",
            thetaLength |-> "PI/2"]
      [] partType = "AIRLOCK" ->
           [type |-> "BoxGeometry", width |-> 4, height |-> 6, depth |-> 4]
      [] OTHER -> NoGeometry

\* lines 132-147: the switch on part.partType
GeometryFor(partType) ==
    CASE partType = "CYLINDER" ->
           [type |-> "CylinderGeometry", radiusTop |-> 5, radiusBottom |-> 5,
            height |-> 10, radialSegments |-> 32]
      [] partType = "DOME" ->
           [type |-> "SphereGeometry", radius |-> 5, widthSegments |-> 32,
            heightSegments |-> 16, phiLength |-> "2*PI",
            thetaLength |-> "PI/2"]
      [] partType = "TUBE" ->
           [type |-> "CylinderGeometry", radiusTop |-> 2, radiusBottom |-> 2,
            height |-> 10, radialSegments |-> 24]
      [] partType = "AIRLOCK" ->
           [type |-> "BoxGeometry", width |-> 4, height |-> 6, depth |-> 4]
      [] OTHER -> NoGeometry

\* lines 149-152
MeshOf(geometry, part, run) ==
    [type |-> "Mesh", geometry |-> geometry, position |-> part.position,
     rotation |-> part.rotation, scale |-> part.scale, builtIn |-> run]

\* AddPart gone wrong: the default case falls back to a box
AddPartWithFallback(children, part, run) ==
    LET geometry == GeometryFor(part.partType)
    IN  IF geometry = NoGeometry
        THEN Append(children, MeshOf(GeometryFor("AIRLOCK"), part, run))
        ELSE Append(children, MeshOf(geometry, part, run))

\* lines 131-153: the forEach callback on one part; the default case returns
\* from the callback, and the loop goes on with the next part
AddPart(children, part, run) ==
    LET geometry == GeometryFor(part.partType)
    IN  IF geometry = NoGeometry THEN children
        ELSE Append(children, MeshOf(geometry, part, run))

\* line 130: parts.forEach
RECURSIVE AddParts(_, _, _)
AddParts(children, parts, run) ==
    IF parts = <<>> THEN children
    ELSE AddParts(AddPart(children, Head(parts), run), Tail(parts), run)

\* lines 119-156: the parts effect, in its run number run
Reconcile(children, parts, run) == AddParts(ClearParts(children), parts, run)

\* the width and height of the mount element
Size(w, h) == [width |-> w, height |-> h]
Sizes == {Size(16, 9), Size(4, 3)}

\* the size of the mount element when the page is loaded
LoadSize == Size(16, 9)

\* lines 71 and 105: width / height, kept as the ratio
AspectOf(size) == [num |-> size.width, den |-> size.height]

\* line 71: new PerspectiveCamera(75, width / height, 0.1, 1000)
CameraFor(size) == [fov |-> 75, aspect |-> AspectOf(size)]

\* GameUI (line 26) renders HabitatViewer: on mount the mount effect, lines
\* 65-117, and then the parts effect, lines 119-156, run.  animate() of line
\* 98 requests the first frame.
MountViewer ==
    /\ GameUIRendered /\ ~viewerMounted
    /\ viewerMounted' = TRUE
    /\ camera' = CameraFor(clientSize)
    /\ rendererSize' = clientSize
    /\ canvasAttached' = TRUE
    /\ framePending' = TRUE
    /\ resizeListener' = TRUE
    /\ sceneChildren' = Reconcile(MountScene, habitatParts, effectRuns + 1)
    /\ effectParts' = habitatParts
    /\ effectRuns' = effectRuns + 1
    /\ UNCHANGED <<gameVars, calls, clientSize>>

\* the parts prop has changed since the effect last ran: lines 119-156
PartsEffect ==
    /\ GameUIRendered /\ viewerMounted
    /\ effectParts # habitatParts
    /\ sceneChildren' = Reconcile(sceneChildren, habitatParts, effectRuns + 1)
    /\ effectParts' = habitatParts
    /\ effectRuns' = effectRuns + 1
    /\ UNCHANGED <<gameVars, calls, viewerMounted, clientSize, mountVars>>

\* lines 92-96: the browser runs the requested frame; animate requests the
\* next one, updates the controls and draws the scene on the canvas: it
\* reads the scene graph and the camera and writes to neither
Redraw ==
    /\ framePending
    /\ framePending' = TRUE
    /\ UNCHANGED <<gameVars, calls, viewerMounted, sceneVars, clientSize,
                   camera, rendererSize, canvasAttached, resizeListener>>

\* handleResize gone wrong: the aspect is height / width
handleResizeInverted ==
    IF viewerMounted
    THEN /\ camera' = [camera EXCEPT
                         !.aspect = [num |-> clientSize'.height,
                                     den |-> clientSize'.width]]
         /\ rendererSize' = clientSize'
    ELSE UNCHANGED <<camera, rendererSize>>

\* lines 101-109: handleResize; mountRef.current is set while the viewer is
\* mounted
handleResize ==
    IF viewerMounted
    THEN /\ camera' = [camera EXCEPT !.aspect = AspectOf(clientSize')]
         /\ rendererSize' = clientSize'
    ELSE UNCHANGED <<camera, rendererSize>>

\* the window is resized to another size: the mount element, while it is
\* in the document, is laid out anew, and the resize event is sent to the
\* listener of line 110
Resize ==
    \E size \in Sizes \ {clientSize} :
        /\ clientSize' = IF viewerMounted THEN size ELSE clientSize
        /\ IF resizeListener THEN handleResize
           ELSE UNCHANGED <<camera, rendererSize>>
        /\ UNCHANGED <<gameVars, calls, viewerMounted, sceneVars,
                       canvasAttached, resizeListener, framePending>>

\* GameUI is no longer rendered: the cleanup of lines 113-116.  The listener
\* is removed; the canvas is removed from the mount element if
\* mountRef.current still holds it (line 115), which depends on whether
\* React has already cleared the ref of the unmounted element when it runs
\* the cleanup.  The frame requested by animate is not cancelled.
UnmountViewer ==
    /\ ~GameUIRendered /\ viewerMounted
    /\ viewerMounted' = FALSE
    /\ resizeListener' = FALSE
    /\ \E refIsSet \in BOOLEAN :
          canvasAttached' = IF refIsSet THEN FALSE ELSE canvasAttached
    /\ UNCHANGED <<gameVars, calls, sceneVars, clientSize, camera,
                   rendererSize, framePending>>

Init ==
    /\ gameState = "START"
    /\ scene = Null
    /\ storyLog = <<>>
    /\ inventory = <<>>
    /\ habitatParts = <<>>
    /\ calls = <<>>
    /\ viewerMounted = FALSE
    /\ sceneChildren = <<>>
    /\ effectParts = <<>>
    /\ effectRuns = 0
    /\ clientSize = LoadSize
    /\ camera = Null
    /\ rendererSize = Null
    /\ canvasAttached = FALSE
    /\ resizeListener = FALSE
    /\ framePending = FALSE

\* the player and the backend
Click == \E i \in 1..Len(VisibleChoices) : ClickChoice(i)
NarrativeAnswered ==
    \E c \in 1..Len(calls) : \E t \in ResponseTexts : StoryResolves(c, t)
NarrativeFailed == \E c \in 1..Len(calls) : StoryRejects(c)
ImageAnswered ==
    \E c \in 1..Len(calls) : \E g \in ImageLists : ImageResolves(c, g)
ImageFailed == \E c \in 1..Len(calls) : ImageRejects(c)

Next ==
    \/ StartGame
    \/ Click
    \/ NarrativeAnswered
    \/ NarrativeFailed
    \/ ImageAnswered
    \/ ImageFailed
    \/ MountViewer
    \/ PartsEffect
    \/ UnmountViewer
    \/ Redraw
    \/ Resize

Spec == Init /\ [][Next]_vars

\* the backend answers every request sent to it: the promise of an
\* outstanding request is settled at some time, and its continuation runs
BackendAnswers ==
    /\ WF_vars(NarrativeAnswered \/ NarrativeFailed)
    /\ WF_vars(ImageAnswered \/ ImageFailed)

FairSpec == Spec /\ BackendAnswers

(***************************************************************************)
(* Properties.                                                             *)
(***************************************************************************)
Calls == 1..Len(calls)

\* a call whose received answers are still kept
Remembered(c) == calls[c].before # Null

\* C1: whenever the current scene has gameOver = true, no choice button is
\* rendered and no click on a choice is possible, whatever the scene's
\* choices list holds.
C1_GameOverHidesChoices ==
    (scene # Null /\ scene.gameOver) =>
        /\ VisibleChoices = <<>>
        /\ ClickableChoices = {}
        /\ \A i \in 1..Len(scene.choices) : ~ENABLED ClickChoice(i)

C1_Witness ==
    /\ gameState = "GAME_OVER" /\ GameUIRendered
    /\ scene # Null /\ scene.gameOver /\ Len(scene.choices) > 0
    /\ Len(calls) < MaxCalls

\* C2: at most one fetchNextScene call is outstanding; while one is, the
\* game is LOADING, and while the game is LOADING no choice button is
\* rendered and no click on a choice is possible.
C2_OneRequestInFlight ==
    /\ Cardinality(OutstandingCalls) <= 1
    /\ OutstandingCalls # {} => isLoading
    /\ isLoading =>
        /\ VisibleChoices = <<>>
        /\ ClickableChoices = {}
        /\ ~ENABLED Click

C2_Witness ==
    /\ isLoading /\ Cardinality(OutstandingCalls) = 1
    /\ Len(calls) = 2
    /\ scene # Null /\ ~scene.gameOver /\ Len(scene.choices) > 0

\* C3: a fetchNextScene call that has rejected leaves the game in ERROR with
\* the story log, the inventory and the habitat part list as they were when
\* the call was made.
C3_RejectionChangesNothing ==
    \A c \in Calls :
        calls[c].pc = "rejected" =>
            /\ gameState = "ERROR"
            /\ Remembered(c)
            /\ storyLog = calls[c].before.storyLog
            /\ inventory = calls[c].before.inventory
            /\ habitatParts = calls[c].before.habitatParts

C3_Witness ==
    /\ gameState = "ERROR"
    /\ \E c \in Calls : calls[c].pc = "rejected" /\ c > 1
    /\ storyLog # <<>> /\ inventory # <<>> /\ habitatParts # <<>>

\* C4: every change of gameState is START->LOADING or PLAYING->LOADING with
\* a new call made, LOADING->PLAYING or LOADING->GAME_OVER with a call
\* resolved (GAME_OVER exactly when its scene has gameOver), or
\* LOADING->ERROR with a call rejected; from ERROR neither gameState nor the
\* calls change again.
C4_Step ==
    /\ gameState' # gameState =>
        \/ /\ gameState \in {"START", "PLAYING"} /\ gameState' = "LOADING"
           /\ Len(calls') = Len(calls) + 1
        \/ /\ gameState = "LOADING" /\ gameState' \in {"PLAYING", "GAME_OVER"}
           /\ \E c \in Calls : Pending(c) /\ calls'[c].pc = "resolved"
           /\ scene' # Null
           /\ (gameState' = "GAME_OVER") = scene'.gameOver
        \/ /\ gameState = "LOADING" /\ gameState' = "ERROR"
           /\ \E c \in Calls : Pending(c) /\ calls'[c].pc = "rejected"
    /\ gameState = "ERROR" => gameState' = "ERROR" /\ calls' = calls

C4_Transitions == [][C4_Step]_vars

C4_Witness ==
    /\ gameState = "ERROR" /\ ~viewerMounted /\ effectRuns > 0
    /\ Len(calls) = 2 /\ scene # Null

\* C5: a narrative response that is malformed, or whose object lacks one of
\* the six required fields, makes the call reject: the call never goes on to
\* the image request and never returns a Scene.
InvalidNarrative(text) ==
    LET v == ParseStory(text)
    IN  v = SyntaxError \/ ~(RequiredFields \subseteq DOMAIN v)

C5_FailsClosed ==
    \A c \in Calls :
        (calls[c].narrativeAnswer = "text" /\ InvalidNarrative(calls[c].text))
            => /\ calls[c].pc = "rejected"
               /\ calls[c].imageRequests = 0
               /\ calls[c].result = Null

\* C6: a call sends at most one narrative and at most one image request; once
\* a request of it has failed, its response could not be parsed or its image
\* list came back empty, the call is rejected, has returned no Scene, has no
\* request outstanding and has sent no request after the failing one.
FailedAtNarrative(c) ==
    \/ calls[c].narrativeAnswer = "error"
    \/ /\ calls[c].narrativeAnswer = "text"
       /\ ParseStory(calls[c].text) = SyntaxError

FailedAtImage(c) ==
    \/ calls[c].imageAnswer = "error"
    \/ calls[c].imageAnswer = "images" /\ calls[c].images = <<>>

C6_NoRetryNoPartialResult ==
    \A c \in Calls :
        /\ calls[c].narrativeRequests <= 1
        /\ calls[c].imageRequests <= 1
        /\ (FailedAtNarrative(c) \/ FailedAtImage(c)) =>
              /\ calls[c].pc = "rejected"
              /\ calls[c].result = Null
              /\ calls[c].outstanding = {}
              /\ calls[c].narrativeRequests = 1
              /\ calls[c].imageRequests = IF FailedAtNarrative(c) THEN 0 ELSE 1

C6_Witness ==
    \E c \in Calls :
        /\ calls[c].imageAnswer = "images" /\ calls[c].images = <<>>
        /\ calls[c].pc = "rejected"

\* C7: a call never has its narrative and its image request outstanding
\* together; the image request has been sent only if the narrative request
\* was answered with a text that parsed, and its prompt is that response's
\* imagePrompt followed by the fixed qualifiers.
C7_Sequential ==
    \A c \in Calls :
        /\ Cardinality(calls[c].outstanding) <= 1
        /\ (Remembered(c) /\ calls[c].imageRequests > 0) =>
              /\ "narrative" \notin calls[c].outstanding
              /\ calls[c].narrativeAnswer = "text"
              /\ \E d \in Docs :
                    /\ \E i \in 1..Len(calls[c].text) :
                          calls[c].text[i] = json(d)
                    /\ calls[c].payload = d
                    /\ calls[c].imagePrompt =
                          (IF "imagePrompt" \in DOMAIN d THEN d.imagePrompt
                           ELSE "undefined")
                            \o ", on the planet Mars, sci-fi, realistic"
        /\ calls[c].imageRequests = 0 => "image" \notin calls[c].outstanding

C7_Witness ==
    \E c \in Calls :
        /\ calls[c].outstanding = {"image"}
        /\ calls[c].text = WrapIn(TaggedFence, <<json(calls[c].payload)>>)
        /\ calls[c].imagePrompt =
              "a crashed shuttle, on the planet Mars, sci-fi, realistic"

\* C8 as claimed: once the parts effect has run, the scene graph holds the
\* two lights and then one mesh for every part of the list, in list order,
\* with that part's position, rotation and scale.
Carries(mesh, part) ==
    /\ mesh.type = "Mesh"
    /\ mesh.position = part.position
    /\ mesh.rotation = part.rotation
    /\ mesh.scale = part.scale

IsRecognized(part) == part.partType \in PartTypes

RecognizedUpTo(parts, i) ==
    Cardinality({ j \in 1..i : IsRecognized(parts[j]) })

C9_UnknownPartSkipped ==
    (effectRuns > 0 /\ \E i \in 1..Len(effectParts) :
                          ~IsRecognized(effectParts[i])) =>
        /\ Cardinality({ k \in 1..Len(sceneChildren) :
                            sceneChildren[k].type = "Mesh" })
              = RecognizedUpTo(effectParts, Len(effectParts))
        /\ \A i \in 1..Len(effectParts) :
              IsRecognized(effectParts[i]) =>
                 LET k == 2 + RecognizedUpTo(effectParts, i)
                 IN  /\ k <= Len(sceneChildren)
                     /\ Carries(sceneChildren[k], effectParts[i])
                     /\ sceneChildren[k].geometry
                          = GeometryFor(effectParts[i].partType)

C9_Witness ==
    /\ viewerMounted /\ effectRuns >= 2 /\ Len(effectParts) = 3
    /\ IsRecognized(effectParts[1])
    /\ ~IsRecognized(effectParts[2])
    /\ IsRecognized(effectParts[3])

\* C10: for every text t that JSON.parse accepts, and every code fence (with
\* or without the json tag, with or without newlines and whitespace around
\* it), a response that is t inside that fence is parsed by generateStory
\* to the value of t.
C10_FenceRoundTrip ==
    \A c \in Calls : \A f \in Fences : \A d \in Docs :
        (calls[c].narrativeAnswer = "text"
           /\ JSONParse(<<json(d)>>) = d
           /\ calls[c].text = WrapIn(f, <<json(d)>>))
            => /\ calls[c].pc # "rejected"
               /\ calls[c].payload = d

\* the viewer was mounted and its cleanup has run
TornDown == effectRuns > 0 /\ ~viewerMounted

\* C11: once the cleanup of the mount effect has run, the resize listener
\* is no longer registered on window (a later resize reaches no handler)
\* and the canvas is no longer a child of the mount element.
C11_TeardownReleases ==
    TornDown => ~resizeListener /\ ~canvasAttached

\* a call resolves in this step
Resolves(c) == Pending(c) /\ calls'[c].pc = "resolved"

\* the scene payload of a call names an item
NamesItem(payload) == "newItem" \in DOMAIN payload /\ payload.newItem # ""

\* C12: a step changes the inventory only by appending: when a call
\* resolves with a payload whose newItem is a non-empty string, the
\* inventory is the old one with that item appended (an item already held
\* is appended again); when a call resolves with newItem empty or absent,
\* and in every other step, the inventory is unchanged.
C12_Step ==
    /\ \A c \in Calls :
          Resolves(c) =>
             inventory' = IF NamesItem(calls'[c].payload)
                          THEN Append(inventory, calls'[c].payload.newItem)
                          ELSE inventory
    /\ (\A c \in Calls : ~Resolves(c)) => inventory' = inventory

C12_InventoryAppendOnly == [][C12_Step]_vars

C12_Witness ==
    /\ inventory = <<"Power Cell", "Power Cell">>
    /\ \E c \in Calls :
          calls[c].pc = "resolved" /\ Remembered(c)
             /\ "newItem" \notin DOMAIN calls[c].payload

\* the scene payload of a call carries a habitat part
CarriesPart(payload) ==
    "habitatUpdate" \in DOMAIN payload /\ payload.habitatUpdate # Null

\* part is the update with an identity no part of parts has
IsNewPartFrom(part, update, parts) ==
    /\ \A f \in DOMAIN update : part[f] = update[f]
    /\ \A i \in 1..Len(parts) : parts[i].id # part.id

\* C13: the parts of the habitat have pairwise distinct identities; a step
\* leaves the part list unchanged or appends one part to it, so that every
\* earlier list is a prefix of every later one; a part is appended exactly
\* in the step in which a call resolves with a non-null habitatUpdate, and
\* it has that update's type, position, rotation and scale.
C13_DistinctIds ==
    \A i, j \in 1..Len(habitatParts) :
        habitatParts[i].id = habitatParts[j].id => i = j

C13_Step ==
    /\ \A c \in Calls :
          Resolves(c) =>
             IF CarriesPart(calls'[c].payload)
             THEN /\ Len(habitatParts') = Len(habitatParts) + 1
                  /\ SubSeq(habitatParts', 1, Len(habitatParts)) = habitatParts
                  /\ IsNewPartFrom(habitatParts'[Len(habitatParts')],
                                   calls'[c].payload.habitatUpdate,
                                   habitatParts)
             ELSE habitatParts' = habitatParts
    /\ (\A c \in Calls : ~Resolves(c)) => habitatParts' = habitatParts

C13_HabitatAppendOnly == []C13_DistinctIds /\ [][C13_Step]_vars

C13_Witness ==
    /\ Len(habitatParts) = 2 /\ Len(storyLog) = 3
    /\ habitatParts[1].partType = habitatParts[2].partType
    /\ habitatParts[1].position = habitatParts[2].position
    /\ habitatParts[1].id # habitatParts[2].id

\* C14: the stored story log has one entry for every resolved call, with
\* the identities 1, 2, ... in the order of storage (strictly increasing);
\* the mission log shows the entries in the reverse order; a step in which
\* a call resolves appends one entry, with the story of its payload and
\* the next identity, and every other step leaves the stored log as it is.
C14_Log ==
    /\ Len(storyLog) = Cardinality({ c \in Calls : calls[c].pc = "resolved" })
    /\ \A i \in 1..Len(storyLog) : storyLog[i].id = i
    /\ \A i, j \in 1..Len(storyLog) :
          i < j => storyLog[i].id < storyLog[j].id
    /\ LET shown == MissionLog(storyLog).shown
       IN  /\ Len(shown) = Len(storyLog)
           /\ \A i \in 1..Len(shown) :
                 shown[i].key = storyLog[Len(storyLog) + 1 - i].id

C14_Step ==
    /\ \A c \in Calls :
          Resolves(c) =>
             storyLog' = Append(storyLog, [id |-> Len(storyLog) + 1,
                                           story |-> calls'[c].payload.story])
    /\ (\A c \in Calls : ~Resolves(c)) => storyLog' = storyLog

C14_StoryLogAppendOnly == []C14_Log /\ [][C14_Step]_vars

C14_Witness ==
    /\ Len(storyLog) = 3
    /\ MissionLog(storyLog).shown[1] =
          [key |-> 3, text |-> "The dust settles...."]
    /\ storyLog[1].id = 1

\* the first call of the session, made by the start action, and what holds
\* once it has resolved, given the game state that is expected then
StartOutcome(expected) ==
    (Len(calls) >= 1 /\ Remembered(1)) =>
        /\ calls[1].narrativeRequests = 1
        /\ calls[1].content =
              [template |-> "Start the game.", history |-> <<>>, choice |-> ""]
        /\ calls[1].before.storyLog = <<>>
        /\ (calls[1].pc = "resolved" /\ Len(calls) = 1) =>
              /\ gameState = expected
              /\ Len(storyLog) = 1
              /\ Len(habitatParts) =
                    IF CarriesPart(calls[1].payload) THEN 1 ELSE 0

C16_AcceptedSceneIsValid ==
    scene # Null =>
        /\ scene.choices = <<>> => scene.gameOver
        /\ gameState = "PLAYING" => VisibleChoices # <<>>
        /\ CarriesPart(scene) => scene.habitatUpdate.partType \in PartTypes

\* the primitive the table gives for a part type, lengths in tenths
IsCylinder(g, radius, height) ==
    /\ g.type = "CylinderGeometry"
    /\ g.radiusTop = radius /\ g.radiusBottom = radius
    /\ g.height = height

IsHemisphere(g, radius) ==
    /\ g.type = "SphereGeometry" /\ g.radius = radius
    /\ g.phiLength = "2*PI" /\ g.thetaLength = "PI/2"

IsBox(g, width, height, depth) ==
    /\ g.type = "BoxGeometry"
    /\ g.width = width /\ g.height = height /\ g.depth = depth

InTable(g, partType) ==
    CASE partType = "CYLINDER" -> IsCylinder(g, 5, 10)
      [] partType = "DOME" -> IsHemisphere(g, 5)
      [] partType = "TUBE" -> IsCylinder(g, 2, 10)
      [] partType = "AIRLOCK" -> IsBox(g, 4, 6, 4)

\* C17: the mesh of every part of recognized type has the primitive of the
\* table for that type (cylinder of radius 0.5 and height 1, hemisphere of
\* radius 0.5, cylinder of radius 0.2 and height 1, box of 0.4 by 0.6 by
\* 0.4), whatever the part's position, rotation and scale; for the list
\* that holds only the lander, a CYLINDER at the origin with rotation 0
\* and scale 1, the scene has exactly one mesh, with the cylinder of
\* radius 0.5 and height 1, at the origin, unrotated and unscaled.
C17_GeometryByType ==
    LET recognized == SelectSeq(effectParts, IsRecognized)
        meshes == SelectSeq(sceneChildren, LAMBDA o : o.type = "Mesh")
    IN  effectRuns > 0 =>
          /\ Len(meshes) = Len(recognized)
          /\ \A i \in 1..Len(meshes) :
                InTable(meshes[i].geometry, recognized[i].partType)
          /\ (Len(effectParts) = 1 /\ effectParts[1].partType = "CYLINDER"
                /\ effectParts[1].position = Vec(0, 0, 0)
                /\ effectParts[1].rotation = Vec(0, 0, 0)
                /\ effectParts[1].scale = Vec(1, 1, 1)) =>
                /\ Len(meshes) = 1
                /\ IsCylinder(meshes[1].geometry, 5, 10)
                /\ meshes[1].position = Vec(0, 0, 0)
                /\ meshes[1].rotation = Vec(0, 0, 0)
                /\ meshes[1].scale = Vec(1, 1, 1)

C17_Witness ==
    /\ viewerMounted /\ Len(effectParts) = 1
    /\ effectParts[1].partType = "CYLINDER"
    /\ effectParts[1].position = Vec(0, 0, 0)
    /\ Len(sceneChildren) = 3

\* C18: once the cleanup of the mount effect has run, no animation frame
\* is requested any more and no redraw can run.
C18_LoopReleased ==
    TornDown => ~framePending /\ ~ENABLED Redraw

\* C19: a redraw changes neither the game state nor the scene graph nor
\* the camera; a resize changes neither the game state nor the scene
\* graph, and while the viewer is mounted it sets the camera's aspect to
\* width / height of the mount element and the renderer's size to its
\* width and height, and nothing else of the camera; in every state the
\* scene graph is the one the latest run of the parts effect built from
\* the part list it was given, whatever redraws and resizes came between.
C19_Step ==
    /\ Redraw =>
          UNCHANGED <<gameVars, calls, sceneVars, camera, rendererSize>>
    /\ Resize =>
          /\ UNCHANGED <<gameVars, calls, sceneVars>>
          /\ viewerMounted =>
                /\ camera'.aspect = [num |-> clientSize'.width,
                                     den |-> clientSize'.height]
                /\ camera'.fov = camera.fov
                /\ rendererSize' = clientSize'

C19_SceneFromParts ==
    effectRuns > 0 =>
        /\ sceneChildren = Reconcile(MountScene, effectParts, effectRuns)
        /\ \A i \in 1..Len(effectParts) :
              i <= Len(habitatParts) /\ habitatParts[i] = effectParts[i]

C19_FramesAndResizesReadOnly == []C19_SceneFromParts /\ [][C19_Step]_vars

C19_Witness ==
    /\ viewerMounted /\ framePending /\ resizeListener
    /\ clientSize = Size(4, 3) /\ rendererSize = Size(4, 3)
    /\ camera.aspect = [num |-> 4, den |-> 3]
    /\ Len(habitatParts) = 2 /\ Len(sceneChildren) = 4

\* a call settles in this step: it resolves, with both of its requests
\* answered, or it rejects, with one of them failed
SettlesComplete(c) ==
    /\ Pending(c)
    /\ calls'[c].outstanding = {}
    /\ \/ /\ calls'[c].pc = "resolved"
          /\ calls'[c].narrativeAnswer = "text"
          /\ calls'[c].imageAnswer = "images" /\ calls'[c].images # <<>>
       \/ /\ calls'[c].pc = "rejected"
          /\ \/ calls'[c].narrativeAnswer \in {"error", "text"}
                   /\ calls'[c].imageRequests = 0
             \/ calls'[c].imageAnswer \in {"error", "images"}

\* C20: if the backend answers every request, a game that is LOADING is
\* PLAYING, GAME_OVER or in ERROR at some later time; the game is LOADING
\* as long as a request is outstanding, and it leaves LOADING only in a
\* step in which the call resolves with both requests answered or rejects
\* with one failed (no step of a timer or of a cancelling takes it out).
C20_LoadingWhileOutstanding ==
    /\ OutstandingCalls # {} => gameState = "LOADING"
    /\ gameState = "LOADING" => OutstandingCalls # {}

C20_Step ==
    (gameState = "LOADING" /\ gameState' # "LOADING") =>
        \E c \in Calls : SettlesComplete(c)

C20_LoadingEnds ==
    /\ (gameState = "LOADING") ~> (gameState \in {"PLAYING", "GAME_OVER", "ERROR"})
    /\ []C20_LoadingWhileOutstanding
    /\ [][C20_Step]_vars

C20_Witness ==
    /\ gameState = "PLAYING" /\ Len(calls) = 3
    /\ \A c \in Calls : calls[c].pc = "resolved"
    /\ calls[3].narrativeAnswer = "text" /\ calls[3].imageAnswer = "images"

==========================================================================
